---- MODULE Spec2Model ----
(***************************************************************************)
(* Model of posthog/models/organization.py: organizations, memberships     *)
(* with permission levels, time-limited invites and the pre_delete         *)
(* consistency receiver, over a relational store with the unique           *)
(* constraints of OrganizationMembership.Meta.                             *)
(***************************************************************************)
EXTENDS Integers, FiniteSets, Sequences, Bags, TLC

(* ---------------------------------------------------------------- bounds *)
\* Organizations bootstrapped.
MaxOrgs == 2
\* Membership rows created (ids are never reused).
MaxMemberships == 3
\* Invite rows created.
MaxInvites == 2
\* Days the clock runs.
MaxTime == 4
\* Interleaved level-update requests started.
MaxRequests == 2
\* Rows of a drawn membership table.
MaxDrawn == 2

(* ------------------------------------------------------------- constants *)
\* Python's None for optional users, levels, organizations and teams.
None == 0
\* OrganizationMembership.Level
MEMBER == 1
ADMIN == 8
OWNER == 15
\* Number of days for which invites are valid; time is counted in days.
INVITE_DAYS_VALIDITY == 3

Levels == {MEMBER, ADMIN, OWNER}
Users == {1, 2, 3}
\* None or the empty string: both are falsy in `email or ...`.
NoEmail == ""
\* The addresses invites are sent to and candidates present.
Emails == {"Alice@x.com", "alice@x.com"}
\* User.email of the three users (the User collaborator's readable field).
UserEmail == [u \in Users |->
                IF u = 1 THEN "Alice@x.com" ELSE IF u = 2 THEN "alice@x.com" ELSE "bob@x.com"]
\* Case folding as done by the __iexact lookup.
Lower(e) == IF e = "Alice@x.com" THEN "alice@x.com" ELSE e

VARIABLES
    organizations,   \* set of Organization ids
    teams,           \* set of Team rows [id, organization_id]
    memberships,     \* set of OrganizationMembership rows [id, organization_id, user_id, level]
    invites,         \* set of OrganizationInvite rows [id, organization_id, target_email, created_at]
    users,           \* user -> [current_organization, current_team]
    now,             \* timezone.now(), in days
    nextMembership,  \* ids handed out to membership rows so far
    nextInvite,      \* ids handed out to invite rows so far
    reqs,            \* bag of in-flight level-update requests, each with the objects it loaded
    started,         \* number of level-update requests started so far
    boot,            \* the bootstrap call in flight and the writes of its transaction
    uses,            \* bag of the calls of validate and use in flight, each with its position
    billing,         \* the billing relation of the organization asked for its features
    license,         \* the License subsystem of the instance
    deletes,         \* bag of the deletions in flight, each with the user row it read
    last             \* the most recent operation and its outcome

vars == <<organizations, teams, memberships, invites, users, now,
          nextMembership, nextInvite, reqs, started,
          boot, uses, billing, license, deletes, last>>


(* ------------------------------------------------ storage-level constraints *)
\* Variant: the constraint on (organization, user) is not declared.
unique_organization_membership_undeclared(tbl) == TRUE
\* UniqueConstraint(fields=["organization_id", "user_id"])
unique_organization_membership(tbl) ==
    \A m1 \in tbl : \A m2 \in tbl :
        (m1.organization_id = m2.organization_id /\ m1.user_id = m2.user_id) => m1.id = m2.id

\* Variant: the partial unique constraint is not declared.
only_one_owner_undeclared(tbl) == TRUE
\* UniqueConstraint(fields=["organization_id"], condition=Q(level=15))
only_one_owner_per_organization(tbl) ==
    \A m1 \in tbl : \A m2 \in tbl :
        (m1.organization_id = m2.organization_id /\ m1.level = OWNER /\ m2.level = OWNER)
            => m1.id = m2.id

ConstraintsHold(tbl) ==
    unique_organization_membership(tbl) /\ only_one_owner_per_organization(tbl)

\* Model.save() of an in-memory row: UPDATE by primary key, INSERT when no row
\* has that key. The table the statement would produce.
Saved(tbl, m) == {r \in tbl : r.id # m.id} \cup {m}
\* The statement raises IntegrityError when the result breaks a constraint.
SaveOk(tbl, m) == ConstraintsHold(Saved(tbl, m))

Owners(tbl, org) == {m \in tbl : m.organization_id = org /\ m.level = OWNER}

(* ------------------------------------ OrganizationMembership.validate_update *)
\* Lines 150-163: the rules on new_level, in the order of the code. The result is
\* the PermissionDenied raised, or "ok".
\* Variant: no check of the own membership.
LevelDenial_skips_own(self, mbu, new_level) ==
    IF new_level = None THEN "ok"
    ELSE IF new_level = OWNER
         THEN IF self.level # OWNER THEN "not_owner" ELSE "ok"
    ELSE IF new_level > self.level THEN "level_too_high"
    ELSE "ok"
\* Variant: the ownership grant asks for ADMIN or more.
LevelDenial_admin_grants(self, mbu, new_level) ==
    IF new_level = None THEN "ok"
    ELSE IF mbu.id = self.id THEN "own_level"
    ELSE IF new_level = OWNER
         THEN IF self.level < ADMIN THEN "not_owner" ELSE "ok"
    ELSE IF new_level > self.level THEN "level_too_high"
    ELSE "ok"
\* Variant: the new level must be strictly below the actor's.
LevelDenial_strict(self, mbu, new_level) ==
    IF new_level = None THEN "ok"
    ELSE IF mbu.id = self.id THEN "own_level"
    ELSE IF new_level = OWNER
         THEN IF self.level # OWNER THEN "not_owner" ELSE "ok"
    ELSE IF new_level >= self.level THEN "level_too_high"
    ELSE "ok"
\* The rules as written.
LevelDenial(self, mbu, new_level) ==
    IF new_level = None THEN "ok"
    ELSE IF mbu.id = self.id THEN "own_level"
    ELSE IF new_level = OWNER
         THEN IF self.level # OWNER THEN "not_owner" ELSE "ok"
    ELSE IF new_level > self.level THEN "level_too_high"
    ELSE "ok"

\* Lines 153, 158: granting OWNER sets self.level to ADMIN once the owner check
\* of line 154 has passed.
Demotes(self, mbu, new_level) ==
    new_level = OWNER /\ LevelDenial(self, mbu, new_level) = "ok"

\* Lines 164-170: the rules on editing another membership, read on self as it
\* is at that point (after the demotion of line 158).
\* Variant: no check that the actor is an administrator.
EditDenial_no_admin_rule(self, mbu) ==
    IF mbu.id = self.id THEN "ok"
    ELSE IF mbu.organization_id # self.organization_id THEN "other_organization"
    ELSE IF mbu.level > self.level THEN "target_higher"
    ELSE "ok"
\* Variant: no check of the target's level.
EditDenial_no_target_rule(self, mbu) ==
    IF mbu.id = self.id THEN "ok"
    ELSE IF mbu.organization_id # self.organization_id THEN "other_organization"
    ELSE IF self.level < ADMIN THEN "not_admin"
    ELSE "ok"
\* The rules as written.
EditDenial(self, mbu) ==
    IF mbu.id = self.id THEN "ok"
    ELSE IF mbu.organization_id # self.organization_id THEN "other_organization"
    ELSE IF self.level < ADMIN THEN "not_admin"
    ELSE IF mbu.level > self.level THEN "target_higher"
    ELSE "ok"

\* Variant: the actor keeps its level.
DemotedSelf_keeps_level(self) == self
\* Line 158: self.level = OrganizationMembership.Level.ADMIN
DemotedSelf(self) == [self EXCEPT !.level = ADMIN]

\* The whole method on the in-memory objects self and membership_being_updated
\* against the table tbl: [result, self, table, saved]. result is "ok", the
\* PermissionDenied raised, or "integrity_error" when self.save() is refused.
validate_update(tbl, self, mbu, new_level) ==
    LET first == LevelDenial(self, mbu, new_level)
        demoted == DemotedSelf(self)
    IN  IF first # "ok"
        THEN [result |-> first, self |-> self, table |-> tbl, saved |-> FALSE]
        ELSE IF Demotes(self, mbu, new_level)
        THEN IF ~SaveOk(tbl, demoted)
             THEN [result |-> "integrity_error", self |-> demoted, table |-> tbl,
                   saved |-> FALSE]
             ELSE [result |-> EditDenial(demoted, mbu), self |-> demoted,
                   table |-> Saved(tbl, demoted), saved |-> TRUE]
        ELSE [result |-> EditDenial(self, mbu), self |-> self, table |-> tbl,
              saved |-> FALSE]

Denials == {"own_level", "not_owner", "level_too_high", "other_organization",
            "not_admin", "target_higher"}

(* ---------------------------------------------------------- OrganizationInvite *)
\* Variant: expired from exactly INVITE_DAYS_VALIDITY days on.
is_expired_at_boundary(invite, t) == invite.created_at <= t - INVITE_DAYS_VALIDITY
\* created_at < timezone.now() - timezone.timedelta(INVITE_DAYS_VALIDITY)
is_expired(invite, t) == invite.created_at < t - INVITE_DAYS_VALIDITY

\* _email = email or (hasattr(user, "email") and user.email)
CandidateEmail(user, email) ==
    IF email # NoEmail THEN email
    ELSE IF user # None THEN UserEmail[user]
    ELSE NoEmail

\* The four checks of validate, each true when it raises.
InvalidRecipient(invite, user, email) ==
    CandidateEmail(user, email) # NoEmail /\ CandidateEmail(user, email) # invite.target_email
UserAlreadyMember(tbl, invite, user) ==
    \E m \in tbl : m.organization_id = invite.organization_id /\ m.user_id = user
ExistingEmailAddress(tbl, invite) ==
    \E m \in tbl : m.organization_id = invite.organization_id
                   /\ UserEmail[m.user_id] = invite.target_email

\* Variant: expiry is checked before the recipient.
validate_candidate_expiry_first(tbl, invite, user, email, t) ==
    IF is_expired(invite, t) THEN "expired"
    ELSE IF InvalidRecipient(invite, user, email) THEN "invalid_recipient"
    ELSE IF UserAlreadyMember(tbl, invite, user) THEN "user_already_member"
    ELSE "ok"
\* Lines 193-210 of validate: the recipient, the expiry and the query of line
\* 207 on the table as it is then. The code of the ValidationError, or "ok".
validate_candidate(tbl, invite, user, email, t) ==
    IF InvalidRecipient(invite, user, email) THEN "invalid_recipient"
    ELSE IF is_expired(invite, t) THEN "expired"
    ELSE IF UserAlreadyMember(tbl, invite, user) THEN "user_already_member"
    ELSE "ok"
\* Lines 212-218 of validate: the query of line 212 on the table as it is then.
validate_target(tbl, invite) ==
    IF ExistingEmailAddress(tbl, invite) THEN "existing_email_address" ELSE "ok"
\* validate with no commit of another request between its two queries.
validate(tbl, invite, user, email, t) ==
    IF validate_candidate(tbl, invite, user, email, t) # "ok"
    THEN validate_candidate(tbl, invite, user, email, t)
    ELSE validate_target(tbl, invite)

\* posthog.utils.mask_email_address: the first and the last character of the
\* local part are kept and the characters between them replaced by stars.
mask_email_address(e) ==
    CASE e = "Alice@x.com" -> "A***e@x.com"
      [] e = "alice@x.com" -> "a***e@x.com"
      [] e = "bob@x.com" -> "b*b@x.com"
      [] OTHER -> e

\* The message of the ValidationError validate raises with a code, as the parts
\* the f-string of lines 197-198 and the literals of lines 204, 209 and 216
\* are made of; _email is the candidate's address of line 193.
ValidationMessage(code, invite, _email) ==
    CASE code = "invalid_recipient" ->
            <<"This invite is intended for another email address: ",
              mask_email_address(invite.target_email),
              ". You tried to sign up with ", _email, ".">>
      [] code = "expired" ->
            <<"This invite has expired. Please ask your admin for a new one.">>
      [] code = "user_already_member" ->
            <<"You already are a member of this organization.">>
      [] code = "existing_email_address" ->
            <<"Another user with this email address already belongs to this organization.">>
      [] OTHER -> <<>>

\* Variant: the sweep matches the target email exactly.
SweptBy_exact(invite) == {i \in invites : i.target_email = invite.target_email}
\* OrganizationInvite.objects.filter(target_email__iexact=invite.target_email)
SweptBy(invite) == {i \in invites : Lower(i.target_email) = Lower(invite.target_email)}

(* ------------------------------------------------------------------ state *)
NoPointers == [current_organization |-> None, current_team |-> None]

\* No bootstrap call in flight.
Idle == [pc |-> "idle"]
\* hasattr(organization, "billing") is false.
NoBilling == [kind |-> "absent"]
\* The import of ee.models.license failed: License = None.
NoLicense == [kind |-> "missing"]

Init ==
    /\ organizations = {}
    /\ teams = {}
    /\ memberships = {}
    /\ invites = {}
    /\ users = [u \in Users |-> NoPointers]
    /\ now = 0
    /\ nextMembership = 0
    /\ nextInvite = 0
    /\ reqs = EmptyBag
    /\ started = 0
    /\ boot = Idle
    /\ uses = EmptyBag
    /\ billing = NoBilling
    /\ license = NoLicense
    /\ deletes = EmptyBag
    /\ last = [op |-> "init"]

\* team.organization of a team id; organization.teams.first() of an organization.
TeamOrganization(team) == (CHOOSE t \in teams : t.id = team).organization_id
FirstTeam(org) ==
    IF \E t \in teams : t.organization_id = org
    THEN (CHOOSE t \in teams : t.organization_id = org).id
    ELSE None

(* ------------------------------------------- Organization.available_features *)
\* No plan key, no realm: None, or a key that is empty (`not plan`).
NoPlan == ""
NoRealm == ""
PlanKeys == {"startup", "enterprise", "unknown"}
Features == {"zapier", "sso", "dashboards"}
FeatureLists == {<<>>, <<"zapier">>, <<"sso", "zapier">>}
\* License.PLANS, the static table from plan key to features.
PLANS == [p \in {"startup", "enterprise"} |->
            IF p = "startup" THEN <<"zapier">> ELSE <<"zapier", "sso", "dashboards">>]
\* License.PLANS.get(plan, [])
PlansGet(plan) == IF plan \in DOMAIN PLANS THEN PLANS[plan] ELSE <<>>

\* The billing relation: absent (no attribute), None, or a relation with its
\* plan key and its own feature list.
BillingRelations ==
    {NoBilling, [kind |-> "none"]}
    \cup {[kind |-> "present", plan_key |-> k, available_features |-> fl] :
             k \in PlanKeys \cup {NoPlan}, fl \in FeatureLists}
\* The License subsystem: missing, or installed with first_valid() returning
\* None or a license with its plan.
LicenseSubsystems ==
    {NoLicense, [kind |-> "installed", valid |-> FALSE, plan |-> NoPlan]}
    \cup {[kind |-> "installed", valid |-> TRUE, plan |-> k] : k \in PlanKeys \cup {NoPlan}}

\* Variant: a billing relation that is None falls back to the license.
billing_plan_details_none_falls_back(b, l) ==
    IF b.kind = "present" THEN <<b.plan_key, "cloud">>
    ELSE IF l.kind # "missing" /\ l.valid THEN <<l.plan, "ee">>
    ELSE <<NoPlan, NoRealm>>
\* Lines 65-83: (billing_plan_key, billing_realm).
billing_plan_details(b, l) ==
    IF b.kind # "absent"
    THEN IF b.kind = "none" THEN <<NoPlan, NoRealm>> ELSE <<b.plan_key, "cloud">>
    ELSE IF l.kind # "missing" /\ l.valid THEN <<l.plan, "ee">>
    ELSE <<NoPlan, NoRealm>>

\* Lines 89-96.
available_features(b, l) ==
    LET plan == billing_plan_details(b, l)[1]
        realm == billing_plan_details(b, l)[2]
    IN  IF plan = NoPlan THEN <<>>
        ELSE IF realm = "ee" THEN PlansGet(plan)
        ELSE b.available_features

\* Lines 98-99: feature in self.available_features
is_feature_available(b, l, feature) ==
    \E k \in DOMAIN available_features(b, l) : available_features(b, l)[k] = feature

\* A caller reads organization.available_features.
AvailableFeatures ==
    /\ last' = [op |-> "available_features", features |-> available_features(billing, license)]
    /\ UNCHANGED <<organizations, teams, memberships, invites, users, now, nextMembership,
                   nextInvite, reqs, started, boot, uses, billing, license, deletes>>

\* A caller asks organization.is_feature_available(feature).
IsFeatureAvailable(feature) ==
    /\ last' = [op |-> "is_feature_available", feature |-> feature,
                available |-> is_feature_available(billing, license, feature)]
    /\ UNCHANGED <<organizations, teams, memberships, invites, users, now, nextMembership,
                   nextInvite, reqs, started, boot, uses, billing, license, deletes>>

(* --------------------------------------------- OrganizationManager.bootstrap *)
\* Line 32: the organization created; line 33: its team.
NewOrganization == Cardinality(organizations) + 1
NewTeam(org) == [id |-> org, organization_id |-> org]
\* Variant: the membership is created at the default level.
OwnerMembership_default_level(id, org, user) ==
    [id |-> id, organization_id |-> org, user_id |-> user, level |-> MEMBER]
\* Lines 36-38: the membership created for the user.
OwnerMembership(id, org, user) ==
    [id |-> id, organization_id |-> org, user_id |-> user, level |-> OWNER]
\* Lines 39-40: the user's pointers.
OwnerPointers(org) == [current_organization |-> org, current_team |-> NewTeam(org).id]

\* The call served as one step, without a failure: the organization, its team
\* and, for a user, the OWNER membership and the user's pointers.
bootstrap(user) ==
    LET org == NewOrganization
        team == NewTeam(org)
        m == OwnerMembership(nextMembership + 1, org, user)
    IN  /\ Cardinality(organizations) < MaxOrgs
        /\ user # None => nextMembership < MaxMemberships
        /\ organizations' = organizations \cup {org}
        /\ teams' = teams \cup {team}
        /\ IF user # None
           THEN /\ SaveOk(memberships, m)
                /\ memberships' = Saved(memberships, m)
                /\ nextMembership' = nextMembership + 1
                /\ users' = [users EXCEPT ![user] = OwnerPointers(org)]
           ELSE UNCHANGED <<memberships, nextMembership, users>>
        /\ last' = [op |-> "bootstrap"]
        /\ UNCHANGED <<invites, now, nextInvite, reqs, started>>
        /\ UNCHANGED <<boot, uses, billing, license, deletes>>

\* The call statement by statement, with other requests in between. What a
\* statement inside `with transaction.atomic()` writes is kept with the call
\* and reaches the tables other requests read when the block is left.
\* Variant: each statement is committed on its own.
Visible_autocommit(before, after) == after
\* The table other requests read after a write inside the block.
Visible(before, after) == before

\* Lines 31-32: the block is entered and the organization created.
BootstrapOrganization(user) ==
    /\ boot = Idle
    /\ Cardinality(organizations) < MaxOrgs
    /\ user # None => nextMembership < MaxMemberships
    /\ boot' = [pc |-> "organization", user |-> user, organization |-> NewOrganization,
                membership |-> None]
    /\ organizations' = Visible(organizations, organizations \cup {NewOrganization})
    /\ last' = [op |-> "bootstrap", result |-> "running", step |-> "organization"]
    /\ UNCHANGED <<teams, memberships, invites, users, now, nextMembership, nextInvite,
                   reqs, started, uses, billing, license, deletes>>

\* A statement of the block raises: the block is left with the exception and
\* its writes are rolled back.
BootstrapFails(step) ==
    /\ boot' = Idle
    /\ last' = [op |-> "bootstrap", result |-> "failed", step |-> step]
    /\ UNCHANGED <<organizations, teams, memberships, invites, users, now, nextMembership,
                   nextInvite, reqs, started, uses, billing, license, deletes>>

\* Line 33: Team.objects.create, which returns (ok) or raises.
BootstrapTeam(ok) ==
    /\ boot # Idle
    /\ boot.pc = "organization"
    /\ IF ok
       THEN /\ boot' = [boot EXCEPT !.pc = "team"]
            /\ teams' = Visible(teams, teams \cup {NewTeam(boot.organization)})
            /\ last' = [op |-> "bootstrap", result |-> "running", step |-> "team"]
            /\ UNCHANGED <<organizations, memberships, invites, users, now, nextMembership,
                           nextInvite, reqs, started, uses, billing, license, deletes>>
       ELSE BootstrapFails("team")

\* Lines 35-38: OrganizationMembership.objects.create for a user.
BootstrapMembership(ok) ==
    LET m == OwnerMembership(nextMembership + 1, boot.organization, boot.user)
    IN  /\ boot # Idle
        /\ boot.pc = "team"
        /\ boot.user # None
        /\ IF ok /\ SaveOk(memberships, m)
           THEN /\ boot' = [boot EXCEPT !.pc = "membership", !.membership = m]
                /\ memberships' = Visible(memberships, Saved(memberships, m))
                /\ nextMembership' = nextMembership + 1
                /\ last' = [op |-> "bootstrap", result |-> "running", step |-> "membership"]
                /\ UNCHANGED <<organizations, teams, invites, users, now, nextInvite,
                               reqs, started, uses, billing, license, deletes>>
           ELSE BootstrapFails("membership")

\* Lines 39-41: the pointers are set and the user saved.
BootstrapUser(ok) ==
    /\ boot # Idle
    /\ boot.pc = "membership"
    /\ IF ok
       THEN /\ boot' = [boot EXCEPT !.pc = "user"]
            /\ users' = Visible(users, [users EXCEPT ![boot.user] =
                                           OwnerPointers(boot.organization)])
            /\ last' = [op |-> "bootstrap", result |-> "running", step |-> "user"]
            /\ UNCHANGED <<organizations, teams, memberships, invites, now, nextMembership,
                           nextInvite, reqs, started, uses, billing, license, deletes>>
       ELSE BootstrapFails("user")

\* The block is left without an exception: its writes are committed (line 42).
BootstrapCommit ==
    /\ boot # Idle
    /\ boot.pc = (IF boot.user = None THEN "team" ELSE "user")
    /\ boot' = Idle
    /\ organizations' = organizations \cup {boot.organization}
    /\ teams' = teams \cup {NewTeam(boot.organization)}
    /\ IF boot.user # None
       THEN /\ memberships' = Saved(memberships, boot.membership)
            /\ users' = [users EXCEPT ![boot.user] = OwnerPointers(boot.organization)]
       ELSE UNCHANGED <<memberships, users>>
    /\ last' = [op |-> "bootstrap", result |-> "ok", step |-> "commit"]
    /\ UNCHANGED <<invites, now, nextMembership, nextInvite, reqs, started,
                   uses, billing, license, deletes>>

(* ------------------------------------ ensure_organization_membership_consistency *)
\* Variant: the receiver is not connected.
AfterPreDelete_not_connected(m) == users[m.user_id]
\* The user's pointers after the pre_delete receiver has run for membership m.
AfterPreDelete(m) ==
    LET u == users[m.user_id]
    IN  [current_organization |->
            IF u.current_organization = m.organization_id THEN None
            ELSE u.current_organization,
         current_team |->
            IF u.current_team # None /\ TeamOrganization(u.current_team) = m.organization_id
            THEN None ELSE u.current_team]

\* save_user of the receiver.
SaveUser(m) == AfterPreDelete(m) # users[m.user_id]

\* membership.delete() up to line 246: the receiver reads the user's row (line
\* 239) and resets the pointers on the object in memory. Django's delete opens a
\* transaction that locks nothing the receiver reads.
PreDelete(m) ==
    /\ m \in memberships
    /\ BagCardinality(deletes) < MaxRequests
    /\ deletes' = deletes (+) SetToBag({[membership |-> m, user |-> AfterPreDelete(m),
                                          save_user |-> SaveUser(m)]})
    /\ last' = [op |-> "pre_delete"]
    /\ UNCHANGED <<organizations, teams, memberships, invites, users, now, nextMembership,
                   nextInvite, reqs, started, boot, uses, billing, license>>

\* Line 248 and the rest of membership.delete(): user.save() writes the row as
\* it was read, with the pointers reset, when save_user is set; then the DELETE
\* of the membership, committed together with it.
DeleteMembership(d) ==
    LET U == d.membership.user_id
        after == IF d.save_user THEN d.user ELSE users[U]
    IN  /\ BagIn(d, deletes)
        /\ deletes' = deletes (-) SetToBag({d})
        /\ users' = [users EXCEPT ![U] = after]
        /\ memberships' = memberships \ {d.membership}
        /\ last' = [op |-> "delete",
                    cleared |-> {f \in {"current_organization", "current_team"} :
                                    after[f] = None /\ users[U][f] # None}]
        /\ UNCHANGED <<organizations, teams, invites, now, nextMembership, nextInvite,
                       reqs, started, boot, uses, billing, license>>

(* ------------------------------------------------------------- environment *)
\* Time passes.
Tick ==
    /\ now < MaxTime
    /\ now' = now + 1
    /\ last' = [op |-> "tick"]
    /\ UNCHANGED <<organizations, teams, memberships, invites, users, nextMembership,
                   nextInvite, reqs, started>>
    /\ UNCHANGED <<boot, uses, billing, license, deletes>>

\* An invite row is created for an organization (created_at is auto_now_add).
CreateInvite(org, email) ==
    /\ org \in organizations
    /\ nextInvite < MaxInvites
    /\ invites' = invites \cup {[id |-> nextInvite + 1, organization_id |-> org,
                                 target_email |-> email, created_at |-> now]}
    /\ nextInvite' = nextInvite + 1
    /\ last' = [op |-> "invite"]
    /\ UNCHANGED <<organizations, teams, memberships, users, now, nextMembership,
                   reqs, started>>
    /\ UNCHANGED <<boot, uses, billing, license, deletes>>

(* --------------------------------------------------------------- User.join *)
\* The membership row user.join(organization) creates, at the default level.
Joining(user, org) ==
    [id |-> nextMembership + 1, organization_id |-> org, user_id |-> user, level |-> MEMBER]

\* The user's pointers after the join.
Joined(user, org) ==
    [users EXCEPT ![user] = [current_organization |-> org, current_team |-> FirstTeam(org)]]

\* user.join(organization=organization), the step of a redemption that writes
\* memberships, for a redemption whose validation has passed.
JoinOrganization(user, org) ==
    /\ org \in organizations
    /\ nextMembership < MaxMemberships
    /\ IF SaveOk(memberships, Joining(user, org))
       THEN /\ memberships' = Saved(memberships, Joining(user, org))
            /\ nextMembership' = nextMembership + 1
            /\ users' = Joined(user, org)
       ELSE UNCHANGED <<memberships, nextMembership, users>>
    /\ last' = [op |-> "join"]
    /\ UNCHANGED <<organizations, teams, invites, now, nextInvite, reqs, started>>
    /\ UNCHANGED <<boot, uses, billing, license, deletes>>

(* ------------------------------------------------- OrganizationInvite.validate *)
\* A caller runs invite.validate(user=user, email=email), statement by
\* statement. validate opens no transaction: other requests commit between its
\* two queries.
\* Lines 193-210: the call ends with the first ValidationError, or goes on.
ValidateInvite(invite, user, email) ==
    LET code == validate_candidate(memberships, invite, user, email, now)
    IN  /\ invite \in invites
        /\ BagCardinality(uses) < MaxRequests
        /\ uses' = IF code = "ok"
                   THEN uses (+) SetToBag({[pc |-> "queried", call |-> "validate",
                                            invite |-> invite, user |-> user]})
                   ELSE uses
        /\ last' = [op |-> "validate", result |-> IF code = "ok" THEN "running" ELSE code]
        /\ UNCHANGED <<organizations, teams, memberships, invites, users, now,
                       nextMembership, nextInvite, reqs, started>>
        /\ UNCHANGED <<boot, billing, license, deletes>>

\* Lines 212-218: the query for a member with the target email, and the return.
ValidateTarget(c) ==
    /\ BagIn(c, uses)
    /\ c.pc = "queried"
    /\ c.call = "validate"
    /\ uses' = uses (-) SetToBag({c})
    /\ last' = [op |-> "validate", result |-> validate_target(memberships, c.invite)]
    /\ UNCHANGED <<organizations, teams, memberships, invites, users, now,
                   nextMembership, nextInvite, reqs, started>>
    /\ UNCHANGED <<boot, billing, license, deletes>>

\* A caller runs invite.is_expired().
CheckExpired(invite) ==
    /\ invite \in invites
    /\ last' = [op |-> "is_expired", expired |-> is_expired(invite, now)]
    /\ UNCHANGED <<organizations, teams, memberships, invites, users, now,
                   nextMembership, nextInvite, reqs, started>>
    /\ UNCHANGED <<boot, uses, billing, license, deletes>>

(* ------------------------------------------------------ OrganizationInvite.use *)
\* invite.use(user, prevalidated=prevalidated), statement by statement. use opens
\* no transaction: each statement is committed when it returns, and other
\* requests run in between.
\* Lines 221-222, up to the query of line 207 inside validate: on the invite it
\* has loaded, the call runs validate unless prevalidated; the exception of
\* validate ends the call.
UseBegin(invite, user, prevalidated) ==
    LET code == IF prevalidated THEN "ok"
                ELSE validate_candidate(memberships, invite, user, NoEmail, now)
    IN  /\ invite \in invites
        /\ BagCardinality(uses) < MaxRequests
        /\ uses' = IF code = "ok"
                   THEN uses (+) SetToBag({[pc |-> IF prevalidated THEN "validated"
                                                   ELSE "queried",
                                            call |-> "use", invite |-> invite,
                                            user |-> user]})
                   ELSE uses
        /\ last' = [op |-> "use", result |-> IF code = "ok" THEN "running" ELSE code,
                    swept |-> {}]
        /\ UNCHANGED <<organizations, teams, memberships, invites, users, now, nextMembership,
                       nextInvite, reqs, started, boot, billing, license, deletes>>

\* Line 222, the rest of validate (lines 212-218): the query for a member with
\* the target email.
UseValidateTarget(c) ==
    LET code == validate_target(memberships, c.invite)
    IN  /\ BagIn(c, uses)
        /\ c.pc = "queried"
        /\ c.call = "use"
        /\ uses' = IF code = "ok"
                   THEN (uses (-) SetToBag({c})) (+) SetToBag({[c EXCEPT !.pc = "validated"]})
                   ELSE uses (-) SetToBag({c})
        /\ last' = [op |-> "use", result |-> IF code = "ok" THEN "running" ELSE code,
                    swept |-> {}]
        /\ UNCHANGED <<organizations, teams, memberships, invites, users, now, nextMembership,
                       nextInvite, reqs, started, boot, billing, license, deletes>>

\* Line 223: user.join(organization=self.organization); the IntegrityError of a
\* second membership ends the call.
UseJoin(c) ==
    LET m == Joining(c.user, c.invite.organization_id)
    IN  /\ BagIn(c, uses)
        /\ c.pc = "validated"
        /\ nextMembership < MaxMemberships
        /\ IF SaveOk(memberships, m)
           THEN /\ memberships' = Saved(memberships, m)
                /\ nextMembership' = nextMembership + 1
                /\ users' = Joined(c.user, c.invite.organization_id)
                /\ uses' = (uses (-) SetToBag({c})) (+) SetToBag({[c EXCEPT !.pc = "joined"]})
                /\ last' = [op |-> "use", result |-> "running", swept |-> {}]
           ELSE /\ uses' = uses (-) SetToBag({c})
                /\ last' = [op |-> "use", result |-> "integrity_error", swept |-> {}]
                /\ UNCHANGED <<memberships, nextMembership, users>>
        /\ UNCHANGED <<organizations, teams, invites, now, nextInvite, reqs,
                       started, boot, billing, license, deletes>>

\* Line 224: the sweep of the invites with the same target email.
UseSweep(c) ==
    /\ BagIn(c, uses)
    /\ c.pc = "joined"
    /\ invites' = invites \ SweptBy(c.invite)
    /\ uses' = uses (-) SetToBag({c})
    /\ last' = [op |-> "use", result |-> "ok",
                swept |-> {<<i.organization_id, i.target_email>> : i \in SweptBy(c.invite)}]
    /\ UNCHANGED <<organizations, teams, memberships, users, now, nextMembership, nextInvite,
                   reqs, started, boot, billing, license, deletes>>

(* ------------------------------------------------- membership level updates *)
NewLevels == Levels \cup {None}

\* What the caller does after validate_update has returned: it sets the new level
\* on the membership being updated and saves it.
Applied(mbu, new_level) == [mbu EXCEPT !.level = new_level]

\* self.validate_update(membership_being_updated, new_level) on two memberships
\* as they are in the table. The method opens no transaction: the save of line
\* 159 is committed when it returns. When the method returns and a level was
\* given, the request goes on to the caller's save (ApplyStep).
UpdateMembership(self, mbu, new_level) ==
    LET r == validate_update(memberships, self, mbu, new_level)
    IN  /\ self \in memberships
        /\ mbu \in memberships
        /\ BagCardinality(reqs) < MaxRequests
        /\ memberships' = r.table
        /\ reqs' = IF r.result = "ok" /\ new_level # None
                   THEN reqs (+) SetToBag({[pc |-> "validated", self |-> r.self,
                                            target |-> mbu, new_level |-> new_level]})
                   ELSE reqs
        /\ last' = [op |-> "validate_update", result |-> r.result, saved |-> r.saved]
        /\ UNCHANGED <<organizations, teams, invites, users, now, nextMembership,
                       nextInvite, started>>
        /\ UNCHANGED <<boot, uses, billing, license, deletes>>

\* Requests working on memberships loaded earlier: a request loads its two
\* memberships...
LoadUpdate(self, mbu, new_level) ==
    /\ started < MaxRequests
    /\ started' = started + 1
    /\ self \in memberships
    /\ mbu \in memberships
    /\ reqs' = reqs (+) SetToBag({[pc |-> "loaded", self |-> self, target |-> mbu,
                                   new_level |-> new_level]})
    /\ last' = [op |-> "request"]
    /\ UNCHANGED <<organizations, teams, memberships, invites, users, now,
                   nextMembership, nextInvite>>
    /\ UNCHANGED <<boot, uses, billing, license, deletes>>

\* ... runs validate_update on the objects it loaded, against the table as it is
\* by then ...
ValidateStep(q) ==
    LET r == validate_update(memberships, q.self, q.target, q.new_level)
        rest == reqs (-) SetToBag({q})
    IN  /\ BagIn(q, reqs)
        /\ q.pc = "loaded"
        /\ memberships' = r.table
        /\ reqs' = IF r.result = "ok" /\ q.new_level # None
                   THEN rest (+) SetToBag({[q EXCEPT !.pc = "validated", !.self = r.self]})
                   ELSE rest
        /\ last' = [op |-> "request"]
        /\ UNCHANGED <<organizations, teams, invites, users, now, nextMembership,
                       nextInvite, started>>
        /\ UNCHANGED <<boot, uses, billing, license, deletes>>

\* ... and, validate_update having returned, saves the membership being updated
\* with its new level; the IntegrityError of a second owner ends the request.
ApplyStep(q) ==
    LET m == Applied(q.target, q.new_level)
    IN  /\ BagIn(q, reqs)
        /\ q.pc = "validated"
        /\ memberships' = IF SaveOk(memberships, m) THEN Saved(memberships, m) ELSE memberships
        /\ reqs' = reqs (-) SetToBag({q})
        /\ last' = [op |-> "apply", level |-> q.new_level, applied |-> SaveOk(memberships, m)]
        /\ UNCHANGED <<organizations, teams, invites, users, now, nextMembership,
                       nextInvite, started>>
        /\ UNCHANGED <<boot, uses, billing, license, deletes>>

(* ---------------------------------------------------------- specifications *)
Candidates == Users \cup {None}
TargetEmails == Emails \cup {NoEmail}

\* Memberships and their levels: one level update at a time, with bootstrap
\* and joins between validate_update and the caller's save (SpecConcurrent
\* adds deletions).
NextLevels ==
    \/ \E u \in Candidates : bootstrap(u)
    \/ \E u \in Users, org \in organizations : JoinOrganization(u, org)
    \/ /\ reqs = EmptyBag
       /\ \E a \in memberships, t \in memberships, nl \in NewLevels :
              UpdateMembership(a, t, nl)
    \/ \E q \in BagToSet(reqs) : ApplyStep(q)

SpecLevels == Init /\ [][NextLevels]_vars

\* Memberships and their levels, level-update requests interleaved with each
\* other, with bootstrap by a user, with joins and with deletions (one at a
\* time).
NextConcurrent ==
    \/ \E u \in Users : bootstrap(u)
    \/ \E u \in Users, org \in organizations : JoinOrganization(u, org)
    \/ deletes = EmptyBag /\ \E m \in memberships : PreDelete(m)
    \/ \E d \in BagToSet(deletes) : DeleteMembership(d)
    \/ \E a \in memberships, t \in memberships, nl \in Levels : LoadUpdate(a, t, nl)
    \/ \E q \in BagToSet(reqs) : ValidateStep(q)
    \/ \E q \in BagToSet(reqs) : ApplyStep(q)

SpecConcurrent == Init /\ [][NextConcurrent]_vars

\* Invites over time. Callers validate as use does, with the candidate alone
\* (SpecValidate draws every pair of user and email). One call of validate or
\* use at a time (SpecUses interleaves them), with the clock running between
\* its statements.
NextInvites ==
    \/ \E u \in Candidates : bootstrap(u)
    \/ Tick
    \/ \E org \in organizations, e \in TargetEmails : CreateInvite(org, e)
    \/ /\ uses = EmptyBag
       /\ \E i \in invites, u \in Candidates : ValidateInvite(i, u, NoEmail)
    \/ \E c \in BagToSet(uses) : ValidateTarget(c)
    \/ \E i \in invites : CheckExpired(i)
    \/ /\ uses = EmptyBag
       /\ \E i \in invites, u \in Users, p \in BOOLEAN : UseBegin(i, u, p)
    \/ \E c \in BagToSet(uses) : UseValidateTarget(c)
    \/ \E c \in BagToSet(uses) : UseJoin(c)
    \/ \E c \in BagToSet(uses) : UseSweep(c)

SpecInvites == Init /\ [][NextInvites]_vars

\* Members coming and going: bootstrap by a user, invites redeemed with and
\* without prevalidation, the statements of the calls of use interleaved, and
\* memberships deleted (one deletion at a time).
NextMembers ==
    \/ \E u \in Users : bootstrap(u)
    \/ \E org \in organizations, e \in TargetEmails : CreateInvite(org, e)
    \/ \E i \in invites, u \in Users, p \in BOOLEAN : UseBegin(i, u, p)
    \/ \E c \in BagToSet(uses) : UseValidateTarget(c)
    \/ \E c \in BagToSet(uses) : UseJoin(c)
    \/ \E c \in BagToSet(uses) : UseSweep(c)
    \/ deletes = EmptyBag /\ \E m \in memberships : PreDelete(m)
    \/ \E d \in BagToSet(deletes) : DeleteMembership(d)

SpecMembers == Init /\ [][NextMembers]_vars

\* The users' pointers: bootstrap, joins and the statements of concurrent
\* deletions interleaved.
NextPointers ==
    \/ \E u \in Candidates : bootstrap(u)
    \/ \E u \in Users, org \in organizations : JoinOrganization(u, org)
    \/ \E m \in memberships : PreDelete(m)
    \/ \E d \in BagToSet(deletes) : DeleteMembership(d)

SpecPointers == Init /\ [][NextPointers]_vars

\* bootstrap statement by statement, any statement after the first failing or
\* not, with joins and deletions (one at a time) by other requests in between.
NextBootstrap ==
    \/ \E u \in Candidates : BootstrapOrganization(u)
    \/ \E ok \in BOOLEAN : BootstrapTeam(ok)
    \/ \E ok \in BOOLEAN : BootstrapMembership(ok)
    \/ \E ok \in BOOLEAN : BootstrapUser(ok)
    \/ BootstrapCommit
    \/ \E u \in Users, org \in organizations : JoinOrganization(u, org)
    \/ deletes = EmptyBag /\ \E m \in memberships : PreDelete(m)
    \/ \E d \in BagToSet(deletes) : DeleteMembership(d)

SpecBootstrap == Init /\ [][NextBootstrap]_vars

\* Drawn inputs: every organization exists with its team, and the membership
\* table is any table the constraints admit over a bounded set of
\* (organization, user) pairs.
Orgs == 1..MaxOrgs
RowOf(org, user, level) ==
    [id |-> (org - 1) * Cardinality(Users) + user, organization_id |-> org,
     user_id |-> user, level |-> level]
DrawnPairs(n) == {pairs \in SUBSET (Orgs \X Users) : Cardinality(pairs) <= n}

InitDrawn ==
    /\ organizations = Orgs
    /\ teams = {[id |-> o, organization_id |-> o] : o \in Orgs}
    /\ users = [u \in Users |-> NoPointers]
    /\ nextMembership = MaxOrgs * Cardinality(Users)
    /\ reqs = EmptyBag
    /\ started = 0
    /\ boot = Idle
    /\ uses = EmptyBag
    /\ billing = NoBilling
    /\ license = NoLicense
    /\ deletes = EmptyBag
    /\ last = [op |-> "init"]

\* validate_update and the caller's save on every table of up to MaxDrawn rows.
InitUpdate ==
    /\ InitDrawn
    /\ \E pairs \in DrawnPairs(MaxDrawn) : \E level \in [pairs -> Levels] :
          /\ memberships = {RowOf(p[1], p[2], level[p]) : p \in pairs}
          /\ ConstraintsHold(memberships)
    /\ invites = {}
    /\ nextInvite = 0
    /\ now = 0

NextUpdate ==
    \/ /\ reqs = EmptyBag
       /\ \E a \in memberships, t \in memberships, nl \in NewLevels :
              UpdateMembership(a, t, nl)
    \/ \E q \in BagToSet(reqs) : ApplyStep(q)

SpecUpdate == InitUpdate /\ [][NextUpdate]_vars

\* validate and is_expired on every set of up to MaxDrawn members and one
\* invite of any organization, address and age, one call of validate at a time,
\* with members deleted between its statements.
InitValidate ==
    /\ InitDrawn
    /\ \E pairs \in DrawnPairs(MaxDrawn) :
          memberships = {RowOf(p[1], p[2], MEMBER) : p \in pairs}
    /\ now \in 0..MaxTime
    /\ \E org \in Orgs, e \in TargetEmails, t \in 0..MaxTime :
          /\ t <= now
          /\ invites = {[id |-> 1, organization_id |-> org, target_email |-> e,
                         created_at |-> t]}
    /\ nextInvite = 1

NextValidate ==
    \/ /\ uses = EmptyBag
       /\ \E i \in invites, u \in Candidates, e \in TargetEmails : ValidateInvite(i, u, e)
    \/ \E c \in BagToSet(uses) : ValidateTarget(c)
    \/ \E i \in invites : CheckExpired(i)
    \/ deletes = EmptyBag /\ \E m \in memberships : PreDelete(m)
    \/ \E d \in BagToSet(deletes) : DeleteMembership(d)

SpecValidate == InitValidate /\ [][NextValidate]_vars

\* use on every set of up to MaxInvites + 1 pending invites, over organizations
\* bootstrapped without a user.
SweepEmails == TargetEmails \cup {"bob@x.com"}
EmailNo(e) == CASE e = NoEmail -> 1 [] e = "Alice@x.com" -> 2
                [] e = "alice@x.com" -> 3 [] OTHER -> 4
InviteOf(org, email) ==
    [id |-> (org - 1) * Cardinality(SweepEmails) + EmailNo(email), organization_id |-> org,
     target_email |-> email, created_at |-> 0]

InitRedeem ==
    /\ organizations = Orgs
    /\ teams = {[id |-> o, organization_id |-> o] : o \in Orgs}
    /\ users = [u \in Users |-> NoPointers]
    /\ memberships = {}
    /\ nextMembership = 0
    /\ \E sent \in SUBSET (Orgs \X SweepEmails) :
          /\ Cardinality(sent) <= MaxInvites + 1
          /\ invites = {InviteOf(p[1], p[2]) : p \in sent}
    /\ nextInvite = MaxOrgs * Cardinality(SweepEmails)
    /\ now = 0
    /\ reqs = EmptyBag
    /\ started = 0
    /\ boot = Idle
    /\ uses = EmptyBag
    /\ billing = NoBilling
    /\ license = NoLicense
    /\ deletes = EmptyBag
    /\ last = [op |-> "init"]

\* One call of use at a time.
NextRedeem ==
    \/ /\ uses = EmptyBag
       /\ \E i \in invites, u \in Users, p \in BOOLEAN : UseBegin(i, u, p)
    \/ \E c \in BagToSet(uses) : UseValidateTarget(c)
    \/ \E c \in BagToSet(uses) : UseJoin(c)
    \/ \E c \in BagToSet(uses) : UseSweep(c)

SpecRedeem == InitRedeem /\ [][NextRedeem]_vars

\* Concurrent redemptions: the statements of up to MaxRequests calls of use
\* interleaved, over the same pending invites.
NextUses ==
    \/ \E i \in invites, u \in Users, p \in BOOLEAN : UseBegin(i, u, p)
    \/ \E c \in BagToSet(uses) : UseValidateTarget(c)
    \/ \E c \in BagToSet(uses) : UseJoin(c)
    \/ \E c \in BagToSet(uses) : UseSweep(c)

SpecUses == InitRedeem /\ [][NextUses]_vars

\* The deletion of a membership for every user context: each user's pointers are
\* any organization and any team, or unset. The statements of up to MaxRequests
\* deletions are interleaved.
InitDelete ==
    /\ organizations = Orgs
    /\ teams = {[id |-> o, organization_id |-> o] : o \in Orgs}
    /\ users \in [Users -> [current_organization : Orgs \cup {None},
                            current_team : Orgs \cup {None}]]
    /\ \E pairs \in DrawnPairs(MaxDrawn) :
          memberships = {RowOf(p[1], p[2], MEMBER) : p \in pairs}
    /\ nextMembership = MaxOrgs * Cardinality(Users)
    /\ invites = {}
    /\ nextInvite = 0
    /\ now = 0
    /\ reqs = EmptyBag
    /\ started = 0
    /\ boot = Idle
    /\ uses = EmptyBag
    /\ billing = NoBilling
    /\ license = NoLicense
    /\ deletes = EmptyBag
    /\ last = [op |-> "init"]

NextDelete ==
    \/ \E m \in memberships : PreDelete(m)
    \/ \E d \in BagToSet(deletes) : DeleteMembership(d)

SpecDelete == InitDelete /\ [][NextDelete]_vars

\* The features of one organization for every billing relation and every
\* License subsystem.
InitFeatures ==
    /\ organizations = {1}
    /\ teams = {[id |-> 1, organization_id |-> 1]}
    /\ memberships = {}
    /\ invites = {}
    /\ users = [u \in Users |-> NoPointers]
    /\ now = 0
    /\ nextMembership = 0
    /\ nextInvite = 0
    /\ reqs = EmptyBag
    /\ started = 0
    /\ boot = Idle
    /\ uses = EmptyBag
    /\ billing \in BillingRelations
    /\ license \in LicenseSubsystems
    /\ deletes = EmptyBag
    /\ last = [op |-> "init"]

NextFeatures ==
    \/ AvailableFeatures
    \/ \E f \in Features : IsFeatureAvailable(f)

SpecFeatures == InitFeatures /\ [][NextFeatures]_vars

(* ================================================================ claims *)

\* C1: in every reachable state, with level-update requests interleaved with each
\* other and with bootstrap, joins and deletions, each organization has at most
\* one membership with level OWNER.
C1_AtMostOneOwner ==
    \A org \in organizations : Cardinality(Owners(memberships, org)) <= 1

\* A request has passed validate_update for a grant of OWNER and is about to
\* apply it while another membership of the organization holds OWNER.
C1_Witness ==
    \E q \in BagToSet(reqs) :
        /\ q.pc = "validated"
        /\ q.new_level = OWNER
        /\ \E m \in Owners(memberships, q.target.organization_id) : m.id # q.target.id

\* C2: when an actor at level OWNER grants OWNER to another membership X of its
\* organization, validate_update returns with the actor's row persisted as ADMIN,
\* and once the caller has applied the level X is the only OWNER of the
\* organization and the actor's row is ADMIN.
C2_OwnershipTransfer ==
    [][/\ \A a \in memberships, x \in memberships :
             (/\ UpdateMembership(a, x, OWNER)
              /\ a.level = OWNER
              /\ last'.result = "ok")
             => /\ [a EXCEPT !.level = ADMIN] \in memberships'
                /\ \A m \in memberships' : m.id = a.id => m.level = ADMIN
       /\ \A q \in BagToSet(reqs) :
             (ApplyStep(q) /\ q.new_level = OWNER)
             => /\ last'.applied
                /\ Owners(memberships', q.target.organization_id)
                       = {[q.target EXCEPT !.level = OWNER]}
                /\ \A m \in memberships' : m.id = q.self.id => m.level = ADMIN]_vars

\* The caller has just applied an ownership grant: the organization has its new
\* owner and an administrator.
C2_Witness ==
    /\ last.op = "apply"
    /\ last.level = OWNER
    /\ last.applied
    /\ \E x \in memberships, a \in memberships :
          /\ x.organization_id = a.organization_id
          /\ x.level = OWNER
          /\ a.level = ADMIN

\* C3: whenever validate_update fails with PermissionDenied, no membership row
\* has changed.
C3_DenialChangesNothing ==
    [][\A a \in memberships, t \in memberships, nl \in NewLevels :
          (UpdateMembership(a, t, nl) /\ last'.result \in Denials)
          => memberships' = memberships]_vars

\* C4: validate_update on the actor's own membership with a new level (MEMBER,
\* ADMIN or OWNER) is always denied and changes no membership.
C4_OwnLevelDenied ==
    [][\A a \in memberships, nl \in Levels :
          UpdateMembership(a, a, nl)
          => /\ last'.result = "own_level"
             /\ ~last'.saved
             /\ memberships' = memberships]_vars

\* An owner exists and a call on one's own membership has just been denied.
C4_Witness ==
    /\ last.op = "validate_update"
    /\ last.result = "own_level"
    /\ \E m \in memberships : m.level = OWNER

\* C5: validate_update with new_level OWNER returns only if the actor's level is
\* OWNER and the target is another membership of the same organization; an ADMIN
\* or MEMBER actor is always denied.
C5_OnlyOwnerGrantsOwner ==
    [][\A a \in memberships, t \in memberships :
          UpdateMembership(a, t, OWNER)
          => /\ last'.result = "ok"
                 => (a.level = OWNER /\ t.id # a.id
                     /\ t.organization_id = a.organization_id)
             /\ a.level \in {MEMBER, ADMIN} => last'.result \in Denials]_vars

\* An administrator exists and a grant of OWNER has just been denied for want of
\* ownership.
C5_Witness ==
    /\ last.op = "validate_update"
    /\ last.result = "not_owner"
    /\ \E m \in memberships : m.level = ADMIN

\* C6: for an actor other than the target and a new level MEMBER or ADMIN,
\* validate_update returns exactly when new_level <= actor.level, both belong to
\* the same organization, actor.level >= ADMIN and target.level <= actor.level,
\* and is denied otherwise.
C6_LevelChangeRule ==
    [][\A a \in memberships, t \in memberships, nl \in {MEMBER, ADMIN} :
          (UpdateMembership(a, t, nl) /\ t.id # a.id)
          => /\ last'.result = "ok"
                 <=> (/\ nl <= a.level
                      /\ t.organization_id = a.organization_id
                      /\ a.level >= ADMIN
                      /\ t.level <= a.level)
             /\ last'.result \in Denials \cup {"ok"}]_vars

\* validate_update has just returned, without an ownership grant, for an ADMIN
\* actor setting a MEMBER of its organization to ADMIN.
C6_Witness ==
    /\ last.op = "validate_update"
    /\ last.result = "ok"
    /\ ~last.saved
    /\ \E q \in BagToSet(reqs) :
          /\ q.pc = "validated"
          /\ q.new_level = ADMIN
          /\ q.self.level = ADMIN
          /\ q.target.level = MEMBER
          /\ q.target.organization_id = q.self.organization_id

\* C7: validate_update without new_level on another membership returns exactly
\* when both belong to the same organization, actor.level >= ADMIN and
\* target.level <= actor.level; on the actor's own membership it always returns.
C7_EditRule ==
    [][\A a \in memberships, t \in memberships :
          UpdateMembership(a, t, None)
          => /\ t.id # a.id
                 => (last'.result = "ok"
                        <=> (/\ t.organization_id = a.organization_id
                             /\ a.level >= ADMIN
                             /\ t.level <= a.level))
             /\ t.id = a.id => last'.result = "ok"
             /\ last'.result \in Denials \cup {"ok"}
             /\ memberships' = memberships]_vars

\* A call without new_level has just returned: nothing was saved and there is
\* no level for the caller to apply.
C7_Witness ==
    /\ last.op = "validate_update"
    /\ last.result = "ok"
    /\ ~last.saved
    /\ reqs = EmptyBag
    /\ Cardinality(memberships) >= 2

\* C8: no call of use on an invite that is expired at the moment of the call
\* creates a membership, whatever prevalidated is and however long ago the
\* invite was validated.
C8_ExpiredNeverRedeemed ==
    [][\A c \in BagToSet(uses) :
          (UseJoin(c) /\ is_expired(c.invite, now))
          => memberships' = memberships]_vars

\* C9 as stated: is_expired() is true for created_at at or before now - 3 days
\* and false one time unit after that.
C9_ExpiredAtBoundary ==
    [][\A i \in invites :
          CheckExpired(i)
          => /\ i.created_at <= now - INVITE_DAYS_VALIDITY => last'.expired
             /\ i.created_at = now - INVITE_DAYS_VALIDITY + 1 => ~last'.expired]_vars

\* C9 as amended: is_expired() is true for created_at strictly before
\* now - 3 days, and false for created_at exactly at now - 3 days or later.
C9_ExpiredStrictlyOlder ==
    [][\A i \in invites :
          CheckExpired(i)
          => /\ i.created_at < now - INVITE_DAYS_VALIDITY => last'.expired
             /\ i.created_at = now - INVITE_DAYS_VALIDITY => ~last'.expired
             /\ i.created_at > now - INVITE_DAYS_VALIDITY => ~last'.expired]_vars

\* is_expired() has just answered false for an invite created exactly 3 days ago.
C9_Witness ==
    /\ last.op = "is_expired"
    /\ ~last.expired
    /\ \A i \in invites : i.created_at = now - INVITE_DAYS_VALIDITY

\* C10: validate fails with the code of the first failing check in the order
\* recipient mismatch, expiry, candidate already a member, a member with the
\* target email, each evaluated when its statement runs; its codes are these
\* four; it succeeds only when all four pass.
C10_ValidateOrder ==
    [][/\ \A i \in invites, u \in Candidates, e \in TargetEmails :
             ValidateInvite(i, u, e)
             => LET presented == IF e # NoEmail THEN e
                                 ELSE IF u # None THEN UserEmail[u] ELSE NoEmail
                    mismatch == presented # NoEmail /\ presented # i.target_email
                    expired == i.created_at + INVITE_DAYS_VALIDITY < now
                    member == \E m \in memberships :
                                 m.organization_id = i.organization_id /\ m.user_id = u
                IN  /\ last'.result \in {"running", "invalid_recipient", "expired",
                                         "user_already_member"}
                    /\ last'.result = "invalid_recipient" <=> mismatch
                    /\ last'.result = "expired" <=> (~mismatch /\ expired)
                    /\ last'.result = "user_already_member"
                           <=> (~mismatch /\ ~expired /\ member)
                    /\ last'.result = "running"
                           <=> (~mismatch /\ ~expired /\ ~member)
       /\ \A c \in BagToSet(uses) :
             ValidateTarget(c)
             => LET taken == \E m \in memberships :
                                /\ m.organization_id = c.invite.organization_id
                                /\ UserEmail[m.user_id] = c.invite.target_email
                IN  /\ last'.result \in {"ok", "existing_email_address"}
                    /\ last'.result = "existing_email_address" <=> taken]_vars

\* validate has just answered expired for an expired invite whose organization
\* already has a member with the invite's target email.
C10_Witness ==
    /\ last.op = "validate"
    /\ last.result = "expired"
    /\ \A i \in invites :
          /\ i.created_at + INVITE_DAYS_VALIDITY < now
          /\ \E m \in memberships :
                /\ m.organization_id = i.organization_id
                /\ UserEmail[m.user_id] = i.target_email

\* C11: after a successful use of an invite, no invite of any organization is
\* left whose target email equals the redeemed invite's ignoring case (the
\* redeemed invite included), and every invite whose target email differs
\* ignoring case is still there.
C11_SweepByEmail ==
    [][\A c \in BagToSet(uses) :
          UseSweep(c)
          => /\ last'.result = "ok"
             /\ c.invite \notin invites'
             /\ \A j \in invites :
                   Lower(j.target_email) = Lower(c.invite.target_email) => j \notin invites'
             /\ \A j \in invites :
                   Lower(j.target_email) # Lower(c.invite.target_email) => j \in invites'
             /\ invites' \subseteq invites]_vars

\* A use has just swept the invite of one organization to Alice@x.com and the
\* invite of another organization to alice@x.com, and an invite to another
\* address is left.
C11_Witness ==
    /\ last.op = "use"
    /\ last.result = "ok"
    /\ \E o1 \in Orgs, o2 \in Orgs :
          o1 # o2 /\ last.swept = {<<o1, "Alice@x.com">>, <<o2, "alice@x.com">>}
    /\ invites # {}

\* C12: in every reachable state, after any sequence of bootstrap, use (with
\* prevalidated true or false) and membership deletion, no user has more than one
\* membership in the same organization.
C12_OneMembershipPerUser ==
    \A org \in organizations, u \in Users :
        Cardinality({m \in memberships : m.organization_id = org /\ m.user_id = u}) <= 1

\* The join of a use by a user who is already a member of the invite's
\* organization has just been refused by the storage constraint.
C12_Witness ==
    /\ last.op = "use"
    /\ last.result = "integrity_error"
    /\ memberships # {}

\* C13: when a membership of user U in organization O is deleted, afterwards
\* U.current_organization is unset if it was O and otherwise unchanged,
\* U.current_team is unset if it belonged to O and otherwise unchanged, and no
\* other user's pointers have changed.
C13_DeleteFrame ==
    [][\A d \in BagToSet(deletes) :
          DeleteMembership(d)
          => LET U == d.membership.user_id
                 O == d.membership.organization_id
                 teamInO == \E t \in teams : t.id = users[U].current_team
                                              /\ t.organization_id = O
             IN  /\ users'[U].current_organization =
                        IF users[U].current_organization = O THEN None
                        ELSE users[U].current_organization
                 /\ users'[U].current_team =
                        IF teamInO THEN None ELSE users[U].current_team
                 /\ \A v \in Users \ {U} : users'[v] = users[v]
                 /\ d.membership \notin memberships']_vars

\* C14: bootstrap is all-or-nothing. While a call is in flight, and after a
\* statement following the creation of the organization has failed, no
\* organization, team or membership of that call is in the tables; no
\* organization without a team is ever in the tables.
C14_AllOrNothing ==
    /\ [](\A o \in organizations : \E t \in teams : t.organization_id = o)
    /\ [](boot # Idle
            => /\ boot.organization \notin organizations
               /\ \A t \in teams : t.organization_id # boot.organization
               /\ \A m \in memberships : m.organization_id # boot.organization)
    /\ [][(boot # Idle /\ boot' = Idle /\ last'.result = "failed")
            => /\ boot.organization \notin organizations'
               /\ \A t \in teams' : t.organization_id # boot.organization
               /\ \A m \in memberships' : m.organization_id # boot.organization
               /\ organizations' = organizations
               /\ teams' = teams
               /\ memberships' = memberships
               /\ users' = users]_vars

\* The saving of the user, the last statement of the block, has just failed
\* after the organization, the team and the membership had been written.
C14_Witness ==
    /\ last.op = "bootstrap"
    /\ last.result = "failed"
    /\ last.step = "user"
    /\ boot = Idle

\* C15: a successful bootstrap with a user creates exactly one membership in the
\* new organization, for that user at level OWNER, and sets the user's
\* current_organization to the new organization and current_team to the new
\* team; without a user it creates the organization and the team, no membership,
\* and changes no user.
C15_BootstrapEffects ==
    [][BootstrapCommit
        => LET o == boot.organization
               u == boot.user
               team == {t \in teams' : t.organization_id = o}
               members == {m \in memberships' : m.organization_id = o}
           IN  /\ o \notin organizations
               /\ organizations' = organizations \cup {o}
               /\ Cardinality(team) = 1
               /\ teams' \ team = teams
               /\ memberships' \ members = memberships
               /\ u # None
                    => /\ Cardinality(members) = 1
                       /\ \A m \in members : m.user_id = u /\ m.level = OWNER
                       /\ users'[u].current_organization = o
                       /\ \A t \in team : users'[u].current_team = t.id
                       /\ \A v \in Users \ {u} : users'[v] = users[v]
               /\ u = None => (members = {} /\ users' = users)]_vars

\* A bootstrap has just been committed; one organization has its owner and
\* another one, bootstrapped without a user, has no member.
C15_Witness ==
    /\ last.op = "bootstrap"
    /\ last.result = "ok"
    /\ \E o \in organizations : Cardinality(Owners(memberships, o)) = 1
    /\ \E o \in organizations : \A m \in memberships : m.organization_id # o

\* C16: no error raised by validate carries an unmasked email address: no part
\* of its message is the invite's target email or the address the candidate
\* presented.
C16_NoRawAddress ==
    [][\A i \in invites, u \in Candidates, e \in TargetEmails :
          (ValidateInvite(i, u, e) /\ last'.result # "running")
          => LET message == ValidationMessage(last'.result, i, CandidateEmail(u, e))
             IN  \A k \in DOMAIN message :
                    /\ message[k] \notin Emails
                    /\ message[k] \notin {UserEmail[v] : v \in Users}]_vars

\* C17: under any interleaving of concurrent redemptions there is no state in
\* which the redemption of an invite has created its membership while another
\* invite with the same target email, ignoring case, still exists and can be
\* validated and used by some user.
C17_JoinAndSweepAtomic ==
    \A c \in BagToSet(uses) :
        c.pc = "joined"
        => ~\E sibling \in invites, u \in Users :
               /\ sibling.id # c.invite.id
               /\ Lower(sibling.target_email) = Lower(c.invite.target_email)
               /\ validate(memberships, sibling, u, NoEmail, now) = "ok"
               /\ SaveOk(memberships, Joining(u, sibling.organization_id))

\* C18: available_features is the billing relation's own feature list when the
\* relation is present with a plan; empty when the relation is present but none,
\* even with a valid license; the entry of the static table for the license
\* plan (empty for an unknown plan) when the relation is absent and the instance
\* has a valid license; empty otherwise. is_feature_available(f) is true exactly
\* when f is in that list.
C18_FeatureResolution ==
    [][LET table == [p \in PlanKeys \cup {NoPlan} |->
                        CASE p = "startup" -> <<"zapier">>
                          [] p = "enterprise" -> <<"zapier", "sso", "dashboards">>
                          [] OTHER -> <<>>]
           validLicense == license.kind = "installed" /\ license.valid
           expected ==
               CASE billing.kind = "present" /\ billing.plan_key # NoPlan ->
                       billing.available_features
                 [] billing.kind = "none" -> <<>>
                 [] billing.kind = "absent" /\ validLicense -> table[license.plan]
                 [] OTHER -> <<>>
       IN  /\ AvailableFeatures => last'.features = expected
           /\ \A f \in Features :
                 IsFeatureAvailable(f)
                 => (last'.available <=> \E k \in DOMAIN expected : expected[k] = f)]_vars

\* The features of an organization whose billing relation is none were just
\* read on an instance with a valid enterprise license: the list is empty.
C18_Witness ==
    /\ last.op = "available_features"
    /\ last.features = <<>>
    /\ billing.kind = "none"
    /\ license.kind = "installed"
    /\ license.valid
    /\ license.plan = "enterprise"

\* C19: in every reachable state, after any sequence of bootstrap, invite
\* redemption and membership deletion, each user's current_organization is unset
\* or an organization in which the user holds a membership, and each user's
\* current_team is unset or a team of such an organization.
C19_PointersWithinMemberships ==
    \A u \in Users :
        LET mine == {m.organization_id : m \in {r \in memberships : r.user_id = u}}
        IN  /\ users[u].current_organization # None
                 => users[u].current_organization \in mine
            /\ users[u].current_team # None
                 => \E t \in teams : t.id = users[u].current_team /\ t.organization_id \in mine

\* A deletion has just cleared both pointers of a user who is still a member
\* of another organization.
C19_Witness ==
    /\ last.op = "delete"
    /\ last.cleared = {"current_organization", "current_team"}
    /\ \E u \in Users :
          /\ users[u] = NoPointers
          /\ \E m \in memberships : m.user_id = u

\* C20: validate_update by an actor other than the target on a target of the
\* same organization whose level is OWNER is denied for every new_level and for
\* none, leaves the caller nothing to apply and leaves the owner's row as it is.
C20_OwnerNotEditable ==
    [][\A a \in memberships, t \in memberships, nl \in NewLevels :
          (/\ UpdateMembership(a, t, nl)
           /\ a.id # t.id
           /\ a.organization_id = t.organization_id
           /\ t.level = OWNER)
          => /\ last'.result \in Denials
             /\ reqs' = reqs
             /\ t \in memberships']_vars

\* An administrator's call on the owner of its organization has just been
\* denied because the target's level is higher.
C20_Witness ==
    /\ last.op = "validate_update"
    /\ last.result = "target_higher"
    /\ \E a \in memberships, t \in memberships :
          /\ a.organization_id = t.organization_id
          /\ a.level = ADMIN
          /\ t.level = OWNER

====
